---- MODULE Spec2Model ----
(***************************************************************************)
(* State-machine model of the glTF viewer page (src/unnamed/part_000):     *)
(* the Model component (asset load, SceneSettings extraction, first-clip   *)
(* seeding, animation-status effect, teardown), and the ModelScene         *)
(* component (handleModelLoad, camera pose state, orbit/manual authority,  *)
(* animation controls).                                                    *)
(*                                                                         *)
(* Numbers are fixed point, in thousandths (1.0 is 1000), so that the      *)
(* 2-decimal rounding of updateCamera is a real operation.                 *)
(* The JavaScript value `true` stored in isPlaying is written "true";      *)
(* null is written "null".                                                 *)
(***************************************************************************)
EXTENDS Integers, Sequences, FiniteSets, TLC

VARIABLES
  modelUrl,             \* ModelScene: useState(null), 0 is null
  sceneSettings,        \* ModelScene: useState({camera: ...})
  animations,           \* ModelScene: useState([])
  currentAnimation,     \* ModelScene: useState(null)
  isPlaying,            \* ModelScene: useState('playing')
  orbitControlsEnabled, \* ModelScene: useState(true)
  progress,             \* ModelScene: useState(0), in steps of 1/ProgSteps
  gltf,                 \* Model: the asset useGLTF returned to the mounted Model, 0 when no Model is mounted
  isInitialized,        \* Model: useState(false)
  hasLoaded,            \* Model: useRef(false)
  isVisible,            \* Model: useState(false)
  actions,              \* Model: useAnimations(...).actions, clip name -> action
  rafQueue,             \* callbacks handed to requestAnimationFrame, oldest first
  frameLeft,            \* callbacks of the running animation frame still to run
  camPos,               \* cameraRef.current.position
  camRot,               \* cameraRef.current.rotation (radians)
  ctrlTarget,           \* controlsRef.current.target
  ctrlEnabled,          \* controlsRef.current.enabled
  effCtl,               \* authority effect: controlsRef.current was set at its last run
  effEnabled,           \* authority effect: orbitControlsEnabled at its last run
  renderPending,        \* ModelScene state was set outside a React event and is not rendered yet
  seedCount,            \* history: runs of the seeding effect body since the last asset load
  prevActions,          \* the actions of the asset shown before, as the Model left them
  scenes,               \* gltf.scene of each asset: centre of its content and root position
  loads,                \* history: the assets chosen so far
  lastLoad,             \* history: the asset of the last handleModelLoad call and the pose it left
  gestures,             \* history: camera panel and orbit gestures so far
  drag                  \* the NumericInput being dragged: its dragStateRef flag and its document listeners

vars == <<modelUrl, sceneSettings, animations, currentAnimation, isPlaying,
          orbitControlsEnabled, progress, gltf, isInitialized, hasLoaded,
          isVisible, actions, rafQueue, frameLeft, camPos, camRot, ctrlTarget,
          ctrlEnabled, effCtl, effEnabled, renderPending, seedCount, prevActions,
          scenes, loads, lastLoad, gestures, drag>>

animVars == <<currentAnimation, isPlaying, progress, actions>>
camObjVars == <<camPos, camRot, ctrlTarget>>
effVars == <<ctrlEnabled, effCtl, effEnabled>>
modelVars == <<gltf, isInitialized, hasLoaded, isVisible, seedCount, prevActions>>

---------------------------------------------------------------------------
(* Bounds of the model *)

MaxLoads == 2
MaxGestures == 3
ProgSteps == 2

Null == "null"
BoolTrue == "true"
Placeholder == "unnamed"

\* the assets offered to the viewer
Assets == {1, 2, 3}

\* files of which two have the same content (4 is the file of 1, 5 of 2)
ReloadAssets == {1, 2, 4, 5}

AllAssets == Assets \cup ReloadAssets

\* clip duration in mixer ticks; one step of the progress slider is one tick
ClipDuration == ProgSteps

---------------------------------------------------------------------------
(* The assets offered to the viewer: what the loader returns for each *)

\* gltf.animations, by clip name ('' is an unnamed clip)
AssetClips(a) ==
  CASE a % 3 = 1 -> <<"a", "b">>
    [] a % 3 = 2 -> <<"">>
    [] OTHER -> <<>>

\* gltf.cameras: each camera by its world position, its forward direction
\* ((0, 0, -1) turned by its world quaternion) and its lens
AssetCameras(a) ==
  IF a % 3 = 2
  THEN << [position |-> <<2000, 1000, 3000>>, forward |-> <<0, 0, -1000>>,
           fov |-> 40000, near |-> 500, far |-> 2000000, zoom |-> 2000],
          [position |-> <<0, 5000, 0>>, forward |-> <<0, -1000, 0>>,
           fov |-> 60000, near |-> 100, far |-> 1000000, zoom |-> 1000] >>
  ELSE <<>>

\* gltf.cameras?.[0]
AssetHasCamera(a) == Len(AssetCameras(a)) > 0

VecAdd(v, w) == [i \in DOMAIN v |-> v[i] + w[i]]
VecNeg(v) == [i \in DOMAIN v |-> 0 - v[i]]

\* the camera settings of the authored camera path
AuthoredCamera(camera) ==
  [position |-> camera.position, target |-> VecAdd(camera.position, camera.forward),
   fov |-> camera.fov, near |-> camera.near, far |-> camera.far, zoom |-> camera.zoom]

\* the authored camera of an asset that has one
AssetCamera(a) == AuthoredCamera(AssetCameras(a)[1])

\* Box3 size of gltf.scene: largest extent
AssetMaxDim(a) == IF a % 3 = 1 THEN 2000 ELSE 0

\* Box3 centre of the content of gltf.scene, in the scene's own frame; the
\* centre of an empty box is the origin
AssetCentre(a) ==
  CASE a % 3 = 1 -> <<0, 1000, 0>>
    [] a % 3 = 2 -> <<500, 0, 0>>
    [] OTHER -> <<0, 0, 0>>

\* gltf.scene as the loader returns it
LoadedScene(a) == [centre |-> AssetCentre(a), position |-> <<0, 0, 0>>]

\* new THREE.Box3().setFromObject(scene).getCenter(): the box is taken in
\* world coordinates, the root's own position included
BoxCentre(scene) == VecAdd(scene.centre, scene.position)

\* the framing path's adjustment of the model position
FramingPathScene(scene) == [scene EXCEPT !.position = VecNeg(BoxCentre(scene))]

\* what the extraction effect does to gltf.scene
ExtractScene(a, scene) == IF AssetHasCamera(a) THEN scene ELSE FramingPathScene(scene)

---------------------------------------------------------------------------
(* Pure helpers *)

SeqToSet(s) == {s[i] : i \in 1..Len(s)}

Truthy(name) == name # Null /\ name # ""

\* {...prev, ...upd} on objects
Merge(prev, upd) ==
  [f \in (DOMAIN prev) \cup (DOMAIN upd) |->
     IF f \in DOMAIN upd THEN upd[f] ELSE prev[f]]

Tan25 == 466
Sin30 == 500
Cos30 == 866
Cos135 == -707
Sin135 == 707
FramingFov == 50000

\* the camera distance of the framing path for a largest extent maxDim
FramingDistance(maxDim) ==
  LET cameraDistance == (maxDim * 1000) \div (2 * Tan25)
  IN (cameraDistance * 12) \div 10

\* framing path of the extraction effect
FramingCamera(a) ==
  LET maxDim == AssetMaxDim(a)
      distance == FramingDistance(maxDim)
      height == (distance * Sin30) \div 1000
      radius == (distance * Cos30) \div 1000
  IN [position |-> <<(radius * Cos135) \div 1000, height, (radius * Sin135) \div 1000>>,
      target |-> <<0, 0, 0>>,
      fov |-> FramingFov]

\* gltf.animations.map(anim => anim.name || placeholder)
AnimationNames(a) ==
  [i \in 1..Len(AssetClips(a)) |->
     IF AssetClips(a)[i] = "" THEN Placeholder ELSE AssetClips(a)[i]]

\* an extraction that takes the framing path for every asset
SceneSettingsFramed(a) ==
  [camera |-> FramingCamera(a), animations |-> AnimationNames(a)]

\* the sceneSettings object the extraction effect hands to onLoad
SceneSettingsOf(a) ==
  [camera |-> IF AssetHasCamera(a) THEN AssetCamera(a) ELSE FramingCamera(a),
   animations |-> AnimationNames(a)]

\* gltf.animations[0].name || '0'
FirstAnimation(a) == IF AssetClips(a)[1] = "" THEN "0" ELSE AssetClips(a)[1]

---------------------------------------------------------------------------
(* Animation actions (THREE.AnimationAction as the component drives it) *)

FreshAction == [time |-> 0, paused |-> FALSE, scheduled |-> FALSE]

\* useAnimations(gltf.animations, modelRef).actions
NewActions(a) == [n \in SeqToSet(AssetClips(a)) |-> FreshAction]

ActPlay(act) == [act EXCEPT !.scheduled = TRUE]
ActReset(act) == [act EXCEPT !.paused = FALSE, !.time = 0]
ActStop(act) == ActReset([act EXCEPT !.scheduled = FALSE])

IsRunning(act) == act.scheduled /\ ~act.paused

Resolves(acts, name) == Truthy(name) /\ name \in DOMAIN acts

Running(acts) == {n \in DOMAIN acts : IsRunning(acts[n])}


\* the animation-status effect with a 'playing' branch that restarts the action
\* (action.reset().play(), as the seeding effect does)
AnimationStatusEffectRestart(acts, cur, st, init) ==
  IF ~init THEN acts
  ELSE IF Resolves(acts, cur)
       THEN CASE st = "playing" -> [acts EXCEPT ![cur] = ActPlay(ActReset(@))]
              [] st = "paused" -> [acts EXCEPT ![cur] = [@ EXCEPT !.paused = TRUE]]
              [] st = "stopped" -> [acts EXCEPT ![cur] = ActReset(ActStop(@))]
              [] OTHER -> acts
       ELSE acts

\* the animation-status effect with a 'stopped' branch that only deactivates
\* the action and keeps its time
AnimationStatusEffectHalt(acts, cur, st, init) ==
  IF ~init THEN acts
  ELSE IF Resolves(acts, cur)
       THEN CASE st = "playing" ->
                   [acts EXCEPT ![cur] = ActPlay([@ EXCEPT !.paused = FALSE])]
              [] st = "paused" -> [acts EXCEPT ![cur] = [@ EXCEPT !.paused = TRUE]]
              [] st = "stopped" -> [acts EXCEPT ![cur] = [@ EXCEPT !.scheduled = FALSE]]
              [] OTHER -> acts
       ELSE acts

\* the animation-status effect of Model
AnimationStatusEffect(acts, cur, st, init) ==
  IF ~init THEN acts
  ELSE IF Resolves(acts, cur)
       THEN CASE st = "playing" ->
                   [acts EXCEPT ![cur] = ActPlay([@ EXCEPT !.paused = FALSE])]
              [] st = "paused" -> [acts EXCEPT ![cur] = [@ EXCEPT !.paused = TRUE]]
              [] st = "stopped" -> [acts EXCEPT ![cur] = ActReset(ActStop(@))]
              [] OTHER -> acts
       ELSE acts

\* the body of the first-animation seeding effect, on the actions
SeedFirstAction(acts, first) ==
  IF first \in DOMAIN acts
  THEN [acts EXCEPT ![first] = ActPlay(ActReset(@))]
  ELSE acts

\* handleProgress that resumes a paused action after setting its time
HandleProgressResume(acts, cur, p) ==
  IF Resolves(acts, cur)
  THEN LET timed == [acts[cur] EXCEPT !.time = p * (ClipDuration \div ProgSteps)]
       IN [acts EXCEPT ![cur] =
             IF timed.paused THEN ActPlay([timed EXCEPT !.paused = FALSE]) ELSE timed]
  ELSE acts

\* handleProgress of Model, progress in steps of 1/ProgSteps
HandleProgress(acts, cur, p) ==
  IF Resolves(acts, cur)
  THEN LET timed == [acts[cur] EXCEPT !.time = p * (ClipDuration \div ProgSteps)]
       IN [acts EXCEPT ![cur] =
             IF timed.paused THEN [ActPlay(timed) EXCEPT !.paused = TRUE] ELSE timed]
  ELSE acts

\* a teardown cleanup that leaves the actions as they are
TeardownNone(acts) ==
  [n \in DOMAIN acts |-> acts[n]]

\* cleanup of the teardown effect: every action stopped, reset and paused
Teardown(acts) ==
  [n \in DOMAIN acts |-> [ActReset(ActStop(acts[n])) EXCEPT !.paused = TRUE]]

\* mixer.update(delta) of useAnimations, one tick of a looped clip
MixerUpdate(acts) ==
  [n \in DOMAIN acts |->
     IF IsRunning(acts[n])
     THEN [acts[n] EXCEPT !.time = (@ + 1) % ClipDuration]
     ELSE acts[n]]

---------------------------------------------------------------------------
(* Camera pose helpers *)

\* Math.round(val * 100) / 100 on thousandths
Round2(v) == ((v + 5) \div 10) * 10

RoundVec(v) == [i \in DOMAIN v |-> Round2(v[i])]

RadToDegFactor == 57296
\* THREE.MathUtils.radToDeg on thousandths
RadToDeg(r) == (r * RadToDegFactor) \div 1000
RadToDegVec(v) == [i \in DOMAIN v |-> RadToDeg(v[i])]

DegToRadFactor == 17453
\* THREE.MathUtils.degToRad on thousandths
DegToRad(d) == (d * DegToRadFactor) \div 1000000
DegToRadVec(v) == [i \in DOMAIN v |-> DegToRad(v[i])]

\* updateCamera: the functional update applied to the previous sceneSettings
UpdateCamera(prev, updates) ==
  LET processedUpdates ==
        [f \in DOMAIN updates |->
           IF f \in {"rotation", "position"} THEN RoundVec(updates[f]) ELSE updates[f]]
  IN [prev EXCEPT !.camera = Merge(prev.camera, processedUpdates)]

\* handleChange, the orbit 'change' listener; enabled is the orbitControlsEnabled
\* of the render whose effect created the listener
HandleChange(prev, enabled, camMounted, pos, rot, tgt) ==
  IF ~camMounted \/ ~enabled THEN prev
  ELSE [prev EXCEPT !.camera =
          Merge(prev.camera,
                [position |-> pos, target |-> tgt, rotation |-> RadToDegVec(rot)])]

\* the orbit-authority effect: cleanup of the previous run, then the body,
\* when one of its dependencies changed
AuthorityEffect(eff, mounted, enabled) ==
  IF eff.ctl = mounted /\ eff.enabled = enabled THEN eff
  ELSE [ctl |-> mounted, enabled |-> enabled,
        ctrlEnabled |-> IF mounted THEN enabled ELSE eff.ctrlEnabled]

\* handleModelLoad's setSceneSettings: its closure's sceneSettings with the
\* asset's camera spread over it
LoadedSceneSettings(snap, settings) ==
  [snap EXCEPT !.camera = Merge(snap.camera, settings.camera)]

---------------------------------------------------------------------------
(* State predicates used by the actions *)

\* Model is mounted and not suspended on a new asset
ModelRendered == gltf # 0 /\ gltf = modelUrl

\* cameraRef.current and controlsRef.current are set while the Canvas content
\* is mounted and not suspended
ControlsMounted == ModelRendered

\* handleChange is registered on the controls
ListenerAttached == effCtl /\ effEnabled

Eff == [ctl |-> effCtl, enabled |-> effEnabled, ctrlEnabled |-> ctrlEnabled]

\* no NumericInput is being dragged
NoDrag == [isDragging |-> FALSE, move |-> {}, up |-> {}, input |-> <<>>]

\* a render of NumericInput declares handleMouseMove and handleMouseUp anew:
\* the functions on the document are then those of an earlier render
Rerendered(d) ==
  [d EXCEPT !.move = IF @ = {} THEN {} ELSE {"old"},
            !.up = IF @ = {} THEN {} ELSE {"old"}]

\* a render of ModelScene: its authority effect runs if its dependencies
\* changed, and the NumericInputs of the panel are rendered again
RenderScene(mounted, enabled) ==
  LET e == AuthorityEffect(Eff, mounted, enabled)
  IN /\ effCtl' = e.ctl
     /\ effEnabled' = e.enabled
     /\ ctrlEnabled' = e.ctrlEnabled
     /\ renderPending' = FALSE
     /\ drag' = Rerendered(drag)

\* the camera sync effect: the pose read from the camera and the controls,
\* written over the previous sceneSettings
CameraSyncEffect(prev, pos, rot, tgt) ==
  [prev EXCEPT !.camera =
     Merge(prev.camera,
           [position |-> pos, target |-> tgt, rotation |-> RadToDegVec(rot)])]

\* sceneSettings after a render of ModelScene: the camera sync effect runs
\* when the camera and controls refs were set since the last render
Synced(settings, pos, rot, tgt) ==
  IF ControlsMounted /\ ~effCtl
  THEN CameraSyncEffect(settings, pos, rot, tgt)
  ELSE settings

\* an extraction effect without the hasLoaded guard
ExtractionEffectUnguarded(queue, loaded, callback) ==
  Append(queue, callback)

\* the extraction effect's guard and its requestAnimationFrame
ExtractionEffect(queue, loaded, callback) ==
  IF ~loaded THEN Append(queue, callback) ELSE queue

\* Model re-rendered by a render of ModelScene: its onLoad prop is a new
\* function, so the extraction effect runs again, behind its guard
ModelRerendered(queue, settings) ==
  IF ModelRendered
  THEN ExtractionEffect(queue, hasLoaded,
                        [kind |-> "onLoad", asset |-> gltf, snap |-> settings, live |-> TRUE])
  ELSE queue

DefaultCamera ==
  [position |-> <<-3500, 3000, 3500>>, rotation |-> <<0, 0, 0>>, zoom |-> 1000,
   target |-> <<0, 0, 0>>, fov |-> 50000, near |-> 100, far |-> 1000000]

\* the viewer after construction, no file chosen
InitViewer ==
  /\ modelUrl = 0
  /\ sceneSettings = [camera |-> DefaultCamera]
  /\ animations = <<>>
  /\ currentAnimation = Null
  /\ isPlaying = "playing"
  /\ orbitControlsEnabled = TRUE
  /\ progress = 0
  /\ gltf = 0
  /\ isInitialized = FALSE
  /\ hasLoaded = FALSE
  /\ isVisible = FALSE
  /\ actions = NewActions(0)
  /\ rafQueue = <<>>
  /\ frameLeft = 0
  /\ camPos = <<0, 0, 0>>
  /\ camRot = <<0, 0, 0>>
  /\ ctrlTarget = <<0, 0, 0>>
  /\ ctrlEnabled = TRUE
  /\ effCtl = FALSE
  /\ effEnabled = TRUE
  /\ renderPending = FALSE
  /\ seedCount = 0
  /\ prevActions = NewActions(0)
  /\ loads = {}
  /\ lastLoad = [asset |-> 0, camera |-> DefaultCamera]
  /\ gestures = 0
  /\ drag = NoDrag

Init ==
  /\ InitViewer
  /\ scenes = [a \in AllAssets |-> LoadedScene(a)]


---------------------------------------------------------------------------
(* Asset selection and load *)

\* handleFileUpload / handleDrop (u # 0) and the Remove Model button (u = 0).
\* Every file chosen gets a new object URL; each asset is chosen at most once. Removing the model unmounts
\* the Canvas: Model's teardown cleanup runs and its state is dropped; the
\* callbacks already handed to requestAnimationFrame stay queued.
SetModelUrl(u) ==
  /\ frameLeft = 0
  /\ u # modelUrl
  /\ u # 0 => u \notin loads /\ Cardinality(loads) < MaxLoads
  /\ loads' = IF u # 0 THEN loads \cup {u} ELSE loads
  /\ modelUrl' = u
  /\ IF u = 0
     THEN /\ gltf' = 0
          /\ isInitialized' = FALSE
          /\ hasLoaded' = FALSE
          /\ isVisible' = FALSE
          /\ seedCount' = 0
          /\ prevActions' = Teardown(actions)
          /\ actions' = NewActions(0)
          /\ rafQueue' = [i \in 1..Len(rafQueue) |-> [rafQueue[i] EXCEPT !.live = FALSE]]
     ELSE UNCHANGED <<modelVars, actions, rafQueue>>
  /\ RenderScene(ControlsMounted, orbitControlsEnabled)
  /\ sceneSettings' = Synced(sceneSettings, camPos, camRot, ctrlTarget)
  /\ UNCHANGED <<animations, currentAnimation, isPlaying,
                 orbitControlsEnabled, progress, frameLeft, camObjVars, scenes, lastLoad, gestures>>

\* controls.update() after the target or position was set: the camera is
\* turned to look at the target; the rotation it ends with is one of these
LookAtOutcomes == { <<0, 0, 0>>, <<-464, 0, 0>> }

\* useGLTF(modelUrl) resolves: Model renders with the new asset and its effects
\* run in order: reset, extraction, seeding, animation status; the teardown
\* cleanup of the previous actions runs first. On a fresh mount the camera
\* takes the pose of its props and the orbit controls created on it turn it
\* to their target with their first update().
ModelLoaded ==
  /\ frameLeft = 0
  /\ modelUrl # 0 /\ gltf # modelUrl
  /\ LET clips == AssetClips(modelUrl)
         acts == NewActions(modelUrl)
         seed == Len(clips) > 0 /\ ~isInitialized
         first == FirstAnimation(modelUrl)
         callback == [kind |-> "onLoad", asset |-> modelUrl,
                      snap |-> sceneSettings, live |-> TRUE]
     IN /\ gltf' = modelUrl
        /\ prevActions' = IF gltf # 0 THEN Teardown(actions) ELSE prevActions
        /\ hasLoaded' = TRUE
        /\ isVisible' = FALSE
        /\ scenes' = [scenes EXCEPT ![modelUrl] = ExtractScene(modelUrl, @)]
        /\ rafQueue' = ExtractionEffect(rafQueue, FALSE, callback)
        /\ IF seed
           THEN /\ currentAnimation' = first
                /\ isPlaying' = BoolTrue
                /\ isInitialized' = TRUE
                /\ seedCount' = 1
                /\ actions' = AnimationStatusEffect(SeedFirstAction(acts, first),
                                                    first, BoolTrue, TRUE)
                /\ renderPending' = TRUE
           ELSE /\ seedCount' = 0
                /\ actions' = AnimationStatusEffect(acts, currentAnimation,
                                                    isPlaying, isInitialized)
                /\ UNCHANGED <<currentAnimation, isPlaying, isInitialized, renderPending>>
        /\ IF gltf = 0
           THEN /\ camPos' = sceneSettings.camera.position
                /\ camRot' \in {DegToRadVec(sceneSettings.camera.rotation)} \cup LookAtOutcomes
                /\ ctrlTarget' = sceneSettings.camera.target
                /\ ctrlEnabled' = TRUE
                /\ effCtl' = FALSE
                /\ UNCHANGED effEnabled
           ELSE UNCHANGED <<camObjVars, effVars>>
  /\ UNCHANGED <<modelUrl, sceneSettings, animations, orbitControlsEnabled,
                 progress, frameLeft, loads, lastLoad, gestures, drag>>

---------------------------------------------------------------------------
(* Animation frames *)

\* handleModelLoad calling onComplete at once instead of in its frame callback
HandleModelLoadEarly(cb) ==
  LET settings == SceneSettingsOf(cb.asset)
  IN /\ sceneSettings' = LoadedSceneSettings(cb.snap, settings)
     /\ animations' = settings.animations
     /\ rafQueue' = Append(Tail(rafQueue), [cb EXCEPT !.kind = "commit"])
     /\ renderPending' = TRUE
     /\ isVisible' = IF cb.live THEN TRUE ELSE isVisible
     /\ lastLoad' = [asset |-> cb.asset, camera |-> sceneSettings'.camera]
     /\ UNCHANGED camObjVars

\* handleModelLoad(settings, onComplete), called by the frame callback of the
\* extraction effect
HandleModelLoad(cb) ==
  LET settings == SceneSettingsOf(cb.asset)
  IN /\ sceneSettings' = LoadedSceneSettings(cb.snap, settings)
     /\ animations' = settings.animations
     /\ rafQueue' = Append(Tail(rafQueue), [cb EXCEPT !.kind = "commit"])
     /\ renderPending' = TRUE
     /\ lastLoad' = [asset |-> cb.asset, camera |-> sceneSettings'.camera]
     /\ UNCHANGED <<isVisible, camObjVars>>

\* a pose commit that never calls onComplete
CommitPoseSilent(cb) ==
  LET settings == SceneSettingsOf(cb.asset)
  IN /\ rafQueue' = Tail(rafQueue)
     /\ IF ControlsMounted
        THEN /\ camPos' = settings.camera.position
             /\ ctrlTarget' = settings.camera.target
             /\ camRot' \in LookAtOutcomes
             /\ sceneSettings' =
                  IF ListenerAttached /\ <<camPos', camRot', ctrlTarget'>> # <<camPos, camRot, ctrlTarget>>
                  THEN HandleChange(sceneSettings, effEnabled, TRUE, camPos', camRot', ctrlTarget')
                  ELSE sceneSettings
             /\ renderPending' = TRUE
             /\ UNCHANGED isVisible
        ELSE UNCHANGED <<isVisible, camObjVars, sceneSettings, renderPending>>
     /\ UNCHANGED <<animations, lastLoad>>

\* the frame callback of handleModelLoad: pose commit, controls.update()
\* (which dispatches 'change' when the camera turned), then onComplete
CommitPose(cb) ==
  LET settings == SceneSettingsOf(cb.asset)
  IN /\ rafQueue' = Tail(rafQueue)
     /\ IF ControlsMounted
        THEN /\ camPos' = settings.camera.position
             /\ ctrlTarget' = settings.camera.target
             /\ camRot' \in LookAtOutcomes
             /\ sceneSettings' =
                  IF ListenerAttached /\ <<camPos', camRot', ctrlTarget'>> # <<camPos, camRot, ctrlTarget>>
                  THEN HandleChange(sceneSettings, effEnabled, TRUE, camPos', camRot', ctrlTarget')
                  ELSE sceneSettings
             /\ isVisible' = IF cb.live THEN TRUE ELSE isVisible
             /\ renderPending' = TRUE
        ELSE UNCHANGED <<isVisible, camObjVars, sceneSettings, renderPending>>
     /\ UNCHANGED <<animations, lastLoad>>

\* one callback of the running animation frame; the callbacks queued when the
\* frame starts all run in this frame, those queued meanwhile in the next
RunFrameCallback ==
  /\ rafQueue # <<>>
  /\ frameLeft' = (IF frameLeft = 0 THEN Len(rafQueue) ELSE frameLeft) - 1
  /\ LET cb == Head(rafQueue)
     IN IF cb.kind = "onLoad" THEN HandleModelLoad(cb) ELSE CommitPose(cb)
  /\ UNCHANGED <<modelUrl, currentAnimation, isPlaying, orbitControlsEnabled,
                 progress, gltf, isInitialized, hasLoaded, actions, seedCount,
                 prevActions, effVars, loads, scenes, gestures, drag>>

\* the render React scheduled for state set outside its event handlers
Render ==
  /\ frameLeft = 0
  /\ renderPending
  /\ RenderScene(ControlsMounted, orbitControlsEnabled)
  /\ sceneSettings' = Synced(sceneSettings, camPos, camRot, ctrlTarget)
  /\ rafQueue' = ModelRerendered(rafQueue, sceneSettings')
  /\ UNCHANGED <<modelUrl, animations, animVars,
                 orbitControlsEnabled, modelVars, frameLeft, loads, scenes, lastLoad, gestures, camObjVars>>

\* useFrame of useAnimations: the mixer advances the running actions
Tick ==
  /\ frameLeft = 0
  /\ Running(actions) # {}
  /\ actions' = MixerUpdate(actions)
  /\ UNCHANGED <<modelUrl, sceneSettings, animations, currentAnimation, isPlaying,
                 orbitControlsEnabled, progress, modelVars, rafQueue, frameLeft, loads, scenes, lastLoad, gestures,
                 camObjVars, effVars, renderPending, drag>>

---------------------------------------------------------------------------
(* Animation controls *)

\* Model re-rendered with new currentAnimation / isPlaying props: the
\* animation-status effect runs when one of them changed
StatusEffectOnProps(cur, st) ==
  IF ModelRendered /\ (cur # currentAnimation \/ st # isPlaying)
  THEN AnimationStatusEffect(actions, cur, st, isInitialized)
  ELSE actions

\* onChange of the animation select; '' is the No Animation option
SelectClip(value) ==
  /\ frameLeft = 0
  /\ Len(animations) > 0
  /\ value \in SeqToSet(animations) \cup {""}
  /\ value # (IF currentAnimation = Null THEN "" ELSE currentAnimation)
  /\ currentAnimation' = value
  /\ isPlaying' = IF value # "" THEN "playing" ELSE "stopped"
  /\ actions' = StatusEffectOnProps(currentAnimation', isPlaying')
  /\ RenderScene(ControlsMounted, orbitControlsEnabled)
  /\ sceneSettings' = Synced(sceneSettings, camPos, camRot, ctrlTarget)
  /\ rafQueue' = ModelRerendered(rafQueue, sceneSettings')
  /\ UNCHANGED <<modelUrl, animations, orbitControlsEnabled, progress,
                 modelVars, frameLeft, loads, scenes, lastLoad, gestures, camObjVars>>

\* the Play / Pause / Stop buttons
SetStatus(st) ==
  /\ frameLeft = 0
  /\ Len(animations) > 0
  /\ Truthy(currentAnimation)
  /\ isPlaying' = st
  /\ actions' = StatusEffectOnProps(currentAnimation, st)
  /\ RenderScene(ControlsMounted, orbitControlsEnabled)
  /\ sceneSettings' = Synced(sceneSettings, camPos, camRot, ctrlTarget)
  /\ rafQueue' = ModelRerendered(rafQueue, sceneSettings')
  /\ UNCHANGED <<modelUrl, animations, currentAnimation,
                 orbitControlsEnabled, progress, modelVars, frameLeft, loads, scenes, lastLoad, gestures,
                 camObjVars>>

\* handleProgressChange, from the range input
HandleProgressChange(value) ==
  /\ frameLeft = 0
  /\ Len(animations) > 0
  /\ Truthy(currentAnimation)
  /\ progress' = value
  /\ actions' = IF ModelRendered
                THEN HandleProgress(actions, currentAnimation, value)
                ELSE actions
  /\ RenderScene(ControlsMounted, orbitControlsEnabled)
  /\ sceneSettings' = Synced(sceneSettings, camPos, camRot, ctrlTarget)
  /\ rafQueue' = ModelRerendered(rafQueue, sceneSettings')
  /\ UNCHANGED <<modelUrl, animations, currentAnimation, isPlaying,
                 orbitControlsEnabled, modelVars, frameLeft, loads, scenes, lastLoad, gestures, camObjVars>>


\* one wheel step of the progress: the 0.01 of handleWheel, taken as one
\* step of the model's slider
WheelDelta == 1

\* the deltaY of a wheel event: up, none (a horizontal scroll), down
WheelDeltas == {-100, 0, 100}

\* a handleWheel that does not clamp
WheelProgressUnclamped(p, deltaY) ==
  p + (IF deltaY > 0 THEN 0 - WheelDelta ELSE WheelDelta)

\* newProgress of handleWheel
WheelProgress(p, deltaY) ==
  LET delta == IF deltaY > 0 THEN 0 - WheelDelta ELSE WheelDelta
      upper == IF p + delta < ProgSteps THEN p + delta ELSE ProgSteps
  IN IF upper > 0 THEN upper ELSE 0

\* handleWheel, on the row of the range input
HandleWheel(deltaY) ==
  /\ Truthy(currentAnimation)
  /\ HandleProgressChange(WheelProgress(progress, deltaY))

---------------------------------------------------------------------------
(* Camera authority *)

\* the poses a drag on the orbit controls can bring the camera to
OrbitPoses ==
  { [position |-> <<0, 2500, 5000>>, rotation |-> <<-464, 0, 0>>, target |-> <<0, 0, 0>>],
    [position |-> <<5000, 0, 0>>, rotation |-> <<0, 1571, 0>>, target |-> <<0, 0, 0>>] }

\* the values typed or dragged into a NumericInput of the camera panel
EditValues == {1234}

\* the 'change' event of the orbit controls: the controls moved the camera
\* (pointer drag, damping), then call the listeners registered on them
OrbitChange(p) ==
  /\ frameLeft = 0
  /\ gestures < MaxGestures
  /\ gestures' = gestures + 1
  /\ ControlsMounted
  /\ ctrlEnabled
  /\ <<p.position, p.rotation, p.target>> # <<camPos, camRot, ctrlTarget>>
  /\ camPos' = p.position
  /\ camRot' = p.rotation
  /\ ctrlTarget' = p.target
  /\ IF ListenerAttached
     THEN /\ sceneSettings' = HandleChange(sceneSettings, effEnabled, TRUE,
                                           p.position, p.rotation, p.target)
          /\ renderPending' = TRUE
     ELSE UNCHANGED <<sceneSettings, renderPending>>
  /\ UNCHANGED <<modelUrl, animations, animVars, orbitControlsEnabled, modelVars,
                 rafQueue, frameLeft, loads, scenes, lastLoad, effVars, drag>>

\* after a manual setter: React renders at once when the setter ran in one of
\* its event handlers (blur of the input), later when it ran in the document
\* mousemove listener of a NumericInput drag
AfterManualEdit(edited, viaDrag) ==
  IF viaDrag
  THEN /\ sceneSettings' = edited
       /\ renderPending' = TRUE
       /\ UNCHANGED <<effVars, rafQueue, drag>>
  ELSE /\ sceneSettings' = Synced(edited, camPos', camRot', ctrlTarget')
       /\ RenderScene(ControlsMounted, FALSE)
       /\ rafQueue' = ModelRerendered(rafQueue, sceneSettings')

\* handlePositionChange(positionValues)
HandlePositionChange(positionValues, viaDrag) ==
  /\ frameLeft = 0
  /\ gestures < MaxGestures
  /\ gestures' = gestures + 1
  /\ orbitControlsEnabled' = FALSE
  /\ camPos' = IF ControlsMounted THEN positionValues ELSE camPos
  /\ UNCHANGED <<modelUrl, animations, animVars, modelVars, frameLeft, loads, scenes, lastLoad,
                 camRot, ctrlTarget>>
  /\ AfterManualEdit(UpdateCamera(sceneSettings, [position |-> positionValues]), viaDrag)

\* handleCameraRotation(rotationValues)
HandleCameraRotation(rotationValues, viaDrag) ==
  /\ frameLeft = 0
  /\ gestures < MaxGestures
  /\ gestures' = gestures + 1
  /\ orbitControlsEnabled' = FALSE
  /\ camRot' = IF ControlsMounted THEN DegToRadVec(rotationValues) ELSE camRot
  /\ UNCHANGED <<modelUrl, animations, animVars, modelVars, frameLeft, loads, scenes, lastLoad,
                 camPos, ctrlTarget>>
  /\ AfterManualEdit(UpdateCamera(sceneSettings, [rotation |-> rotationValues]), viaDrag)

\* handleTargetChange(targetValues); its controls.update() dispatches 'change'
\* when the camera turned towards the new target
HandleTargetChange(targetValues, viaDrag) ==
  /\ frameLeft = 0
  /\ gestures < MaxGestures
  /\ gestures' = gestures + 1
  /\ orbitControlsEnabled' = FALSE
  /\ IF ControlsMounted
     THEN /\ ctrlTarget' = targetValues
          /\ camRot' \in LookAtOutcomes
     ELSE UNCHANGED <<ctrlTarget, camRot>>
  /\ UNCHANGED <<modelUrl, animations, animVars, modelVars, frameLeft, loads, scenes, lastLoad, camPos>>
  /\ AfterManualEdit(
       IF ControlsMounted /\ ListenerAttached /\ camRot' # camRot
       THEN HandleChange(UpdateCamera(sceneSettings, [target |-> targetValues]),
                         effEnabled, TRUE, camPos, camRot', targetValues)
       ELSE UpdateCamera(sceneSettings, [target |-> targetValues]),
       viaDrag)

\* onChange of a NumericInput of the camera panel: one axis of the rendered
\* vector replaced by the new value
CameraInput(field, axis, value, viaDrag) ==
  LET vec == [sceneSettings.camera[field] EXCEPT ![axis] = value]
  IN CASE field = "position" -> HandlePositionChange(vec, viaDrag)
       [] field = "rotation" -> HandleCameraRotation(vec, viaDrag)
       [] field = "target" -> HandleTargetChange(vec, viaDrag)

\* the NumericInputs of the camera panel whose label is dragged
DragInputs == {<<"position", 1>>, <<"rotation", 2>>, <<"target", 3>>}

\* a handleMouseUp that removes the functions of the latest render instead
\* of its own
HandleMouseUpLatest(d, g) ==
  [d EXCEPT !.isDragging = FALSE, !.move = @ \ {"cur"}, !.up = @ \ {"cur"}]

\* handleMouseUp of the render g: it removes the handleMouseMove and the
\* handleMouseUp declared beside it
HandleMouseUp(d, g) ==
  [d EXCEPT !.isDragging = FALSE, !.move = @ \ {g}, !.up = @ \ {g}]

\* handleMouseDown on the label of a NumericInput, the mouse button being up;
\* setIsDragging(true) renders the input again
MouseDown(field, axis) ==
  /\ frameLeft = 0
  /\ ~drag.isDragging
  /\ drag' = Rerendered([isDragging |-> TRUE, move |-> drag.move \cup {"cur"},
                         up |-> drag.up \cup {"cur"}, input |-> <<field, axis>>])
  /\ UNCHANGED <<modelUrl, sceneSettings, animations, animVars, orbitControlsEnabled,
                 modelVars, rafQueue, frameLeft, camObjVars, effVars, renderPending,
                 scenes, loads, lastLoad, gestures>>

\* a mousemove event on the document: the handleMouseMove registered there
\* calls onChange while the drag flag is set
MouseMove(value) ==
  /\ drag.move # {}
  /\ drag.isDragging
  /\ CameraInput(drag.input[1], drag.input[2], value, TRUE)

\* a mouseup event on the document: every handleMouseUp registered there
\* runs; setIsDragging(false) renders the input again
MouseUp ==
  /\ frameLeft = 0
  /\ drag.up # {}
  /\ LET older == IF "old" \in drag.up THEN HandleMouseUp(drag, "old") ELSE drag
         latest == IF "cur" \in drag.up THEN HandleMouseUp(older, "cur") ELSE older
     IN drag' = Rerendered([latest EXCEPT !.input = IF latest.move = {} THEN <<>> ELSE @])
  /\ UNCHANGED <<modelUrl, sceneSettings, animations, animVars, orbitControlsEnabled,
                 modelVars, rafQueue, frameLeft, camObjVars, effVars, renderPending,
                 scenes, loads, lastLoad, gestures>>

\* toggleOrbitControls, the Enable Mouse Control checkbox
ToggleOrbitControls ==
  /\ frameLeft = 0
  /\ gestures < MaxGestures
  /\ gestures' = gestures + 1
  /\ orbitControlsEnabled' = ~orbitControlsEnabled
  /\ RenderScene(ControlsMounted, orbitControlsEnabled')
  /\ sceneSettings' = Synced(sceneSettings, camPos, camRot, ctrlTarget)
  /\ rafQueue' = ModelRerendered(rafQueue, sceneSettings')
  /\ UNCHANGED <<modelUrl, animations, animVars, modelVars,
                 frameLeft, loads, scenes, lastLoad, camObjVars>>


RECURSIVE SqrtIter(_, _, _)
SqrtIter(n, lo, hi) ==
  IF lo >= hi THEN lo
  ELSE LET mid == (lo + hi + 1) \div 2
       IN IF mid * mid <= n THEN SqrtIter(n, mid, hi) ELSE SqrtIter(n, lo, mid - 1)

\* Math.sqrt on thousandths squared, rounded down
ISqrt(n) == SqrtIter(n, 0, 46340)

\* Vector3.distanceTo
DistanceTo(a, b) ==
  ISqrt((a[1] - b[1]) * (a[1] - b[1]) + (a[2] - b[2]) * (a[2] - b[2])
        + (a[3] - b[3]) * (a[3] - b[3]))

FallbackDistance == 10000
MaxResetDistance == 7000

\* camera.lookAt(target) from a position straight above and behind the target
\* by (0, d/2, d): a pitch of -atan(1/2)
ResetLookAt == <<-464, 0, 0>>

\* the position resetCameraToViewTarget computes
ResetPosition(pos, target) ==
  LET currentDistance == DistanceTo(pos, target)
      distance == IF currentDistance > 0 THEN currentDistance ELSE FallbackDistance
  IN <<Round2(target[1]), Round2(target[2] + distance \div 2), Round2(target[3] + distance)>>

\* resetCameraToViewTarget, the Reset Camera View button
ResetCameraToViewTarget ==
  /\ frameLeft = 0
  /\ gestures < MaxGestures
  /\ gestures' = gestures + 1
  /\ ControlsMounted
  /\ DistanceTo(camPos, ctrlTarget) <= MaxResetDistance
  /\ LET position == ResetPosition(camPos, ctrlTarget)
         first == UpdateCamera(sceneSettings, [position |-> position, rotation |-> <<0, 0, 0>>])
     IN /\ camPos' = position
        /\ camRot' = ResetLookAt
        /\ sceneSettings' = Synced(UpdateCamera(first, [rotation |-> RadToDegVec(ResetLookAt)]),
                                   position, ResetLookAt, ctrlTarget)
  /\ rafQueue' = ModelRerendered(rafQueue, sceneSettings')
  /\ orbitControlsEnabled' = TRUE
  /\ RenderScene(ControlsMounted, TRUE)
  /\ UNCHANGED <<modelUrl, animations, animVars, modelVars, frameLeft, loads, scenes, lastLoad,
                 ctrlTarget>>

---------------------------------------------------------------------------
(* Specifications *)

LoadStep ==
  \/ \E u \in Assets \cup {0} : SetModelUrl(u)
  \/ ModelLoaded
  \/ RunFrameCallback
  \/ Render

AnimationStep ==
  \/ Tick
  \/ \E value \in SeqToSet(animations) \cup {""} : SelectClip(value)
  \/ \E st \in {"playing", "paused", "stopped"} : SetStatus(st)
  \/ \E value \in 0..ProgSteps : HandleProgressChange(value)
  \/ \E deltaY \in WheelDeltas : HandleWheel(deltaY)

\* the camera panel and the orbit controls in use; viaDrag tells an onChange
\* made by the document listener of a label drag (the drag itself, with its
\* listeners, is in NextDrag) from one made by the blur of the input
CameraStep ==
  \/ \E p \in OrbitPoses : OrbitChange(p)
  \/ \E field \in {"position", "rotation", "target"}, axis \in 1..3,
        value \in EditValues, viaDrag \in BOOLEAN :
       CameraInput(field, axis, value, viaDrag)
  \/ ToggleOrbitControls
  \/ ResetCameraToViewTarget

Next == LoadStep \/ AnimationStep \/ CameraStep

Spec == Init /\ [][Next]_vars

\* asset selection, load and frame callbacks alone
SpecLoad == Init /\ [][LoadStep]_vars

\* asset selection and load, where the browser keeps running the frame
\* callbacks handed to requestAnimationFrame
SpecLoadFair == SpecLoad /\ WF_vars(RunFrameCallback)

\* asset selection and load where a file can be chosen a second time
NextReload ==
  \/ \E u \in ReloadAssets \cup {0} : SetModelUrl(u)
  \/ ModelLoaded
  \/ RunFrameCallback
  \/ Render
SpecReload == Init /\ [][NextReload]_vars

\* coordinates of the scene centres tried
SceneCoords == {-1500, 0, 500, 2000}

\* a scene graph without cameras whose content is centred anywhere
InitFraming ==
  /\ InitViewer
  /\ \E x, y, z \in SceneCoords :
       scenes = [a \in AllAssets |->
                   IF a = 1 THEN [centre |-> <<x, y, z>>, position |-> <<0, 0, 0>>]
                   ELSE LoadedScene(a)]

\* the framing path's box measurement and model adjustment, run on the scene
\* graph of asset a
FramingPath(a) ==
  /\ ~AssetHasCamera(a)
  /\ scenes' = [scenes EXCEPT ![a] = FramingPathScene(@)]
  /\ UNCHANGED <<modelUrl, sceneSettings, animations, animVars, orbitControlsEnabled,
                 modelVars, rafQueue, frameLeft, camObjVars, effVars, renderPending,
                 loads, lastLoad, gestures, drag>>

\* the framing path applied to scene graphs, any number of times
NextFraming == \E a \in {1} : FramingPath(a)
SpecFraming == InitFraming /\ [][NextFraming]_vars

\* the viewer with the animation panel in use and the camera panel untouched
NextAnim == LoadStep \/ AnimationStep
SpecAnim == Init /\ [][NextAnim]_vars

\* the first file chosen in an empty viewer
ChooseFirstAsset(u) == modelUrl = 0 /\ loads = {} /\ SetModelUrl(u)

\* the viewer showing one asset, with the camera panel and the orbit controls
\* in use
NextCam ==
  \/ \E u \in Assets : ChooseFirstAsset(u)
  \/ ModelLoaded
  \/ RunFrameCallback
  \/ Render
  \/ CameraStep
SpecCam == Init /\ [][NextCam]_vars

\* the viewer showing one asset, with labels of the camera panel dragged
NextDrag ==
  \/ \E u \in Assets : ChooseFirstAsset(u)
  \/ ModelLoaded
  \/ RunFrameCallback
  \/ Render
  \/ \E input \in DragInputs : MouseDown(input[1], input[2])
  \/ \E value \in EditValues : MouseMove(value)
  \/ MouseUp
SpecDrag == Init /\ [][NextDrag]_vars

\* the viewer showing one asset, with the animation panel in use
NextPlay ==
  \/ \E u \in Assets : ChooseFirstAsset(u)
  \/ ModelLoaded
  \/ RunFrameCallback
  \/ Render
  \/ AnimationStep
SpecPlay == Init /\ [][NextPlay]_vars


---------------------------------------------------------------------------
(* Claims *)

\* C1: once a manual pose edit has switched the authority to Manual, no orbit
\* 'change' event alters the camera pose in sceneSettings until Orbit mode is
\* restored.
C1_AuthorityExclusivity ==
  [][(~orbitControlsEnabled /\ \E p \in OrbitPoses : OrbitChange(p))
       => sceneSettings' = sceneSettings]_vars

C3_StaleDiscarded ==
  [][(rafQueue # <<>> /\ Head(rafQueue).asset # modelUrl /\ RunFrameCallback)
       => /\ sceneSettings' = sceneSettings
          /\ animations' = animations
          /\ isVisible' => isVisible]_vars

\* C4: selecting clip B while clip A's action is playing leaves A's action at
\* time 0 and not running.
C4_ClipSwitchStopsPrevious ==
  [][\A b \in SeqToSet(animations) :
       (/\ ModelRendered
        /\ Resolves(actions, currentAnimation)
        /\ IsRunning(actions[currentAnimation])
        /\ b # currentAnimation
        /\ SelectClip(b))
       => /\ actions'[currentAnimation].time = 0
          /\ ~IsRunning(actions'[currentAnimation])]_vars

\* C5: at most one clip action of the asset is running at a time.
C5_AtMostOneRunning == Cardinality(Running(actions)) <= 1

\* C6: selecting No Animation sets the status to stopped and leaves no action
\* running.
C6_SelectNoneStopsAll ==
  [][SelectClip("") => (isPlaying' = "stopped" /\ Running(actions') = {})]_vars

\* C7: a clip selection or a Play / Pause press whose clip has no action in
\* `actions` does not advance the status.
C7_MissingActionNoOp ==
  [][(/\ ModelRendered
      /\ \/ \E v \in SeqToSet(animations) : ~Resolves(actions, v) /\ SelectClip(v)
         \/ /\ ~Resolves(actions, currentAnimation)
            /\ \E st \in {"playing", "paused"} : SetStatus(st))
       => isPlaying' = isPlaying]_vars

\* C8: the playback status is always one of playing, paused, stopped.
C8_StatusEnum == isPlaying \in {"playing", "paused", "stopped"}

\* C9: for every loaded asset with at least one clip, the seeding of the first
\* clip ran exactly once for that asset.
C9_SeededOncePerAsset ==
  (gltf # 0 /\ Len(AssetClips(gltf)) > 0) => seedCount = 1

\* C10: Pause on a playing clip keeps the action's time and pauses it, a paused
\* action's time is not advanced by the mixer, and Play on the paused clip
\* keeps the time and sets the action running again.
C10_PauseResume ==
  [][/\ (/\ ModelRendered
         /\ Resolves(actions, currentAnimation)
         /\ IsRunning(actions[currentAnimation])
         /\ SetStatus("paused"))
        => /\ actions'[currentAnimation].time = actions[currentAnimation].time
           /\ actions'[currentAnimation].paused
     /\ (/\ Resolves(actions, currentAnimation)
         /\ actions[currentAnimation].paused
         /\ Tick)
        => actions'[currentAnimation].time = actions[currentAnimation].time
     /\ (/\ ModelRendered
         /\ Resolves(actions, currentAnimation)
         /\ isPlaying = "paused"
         /\ actions[currentAnimation].paused
         /\ SetStatus("playing"))
        => /\ actions'[currentAnimation].time = actions[currentAnimation].time
           /\ IsRunning(actions'[currentAnimation])]_vars

\* C10 witness: the current clip paused at a time the mixer had advanced it to
C10_Witness ==
  /\ ModelRendered
  /\ isPlaying = "paused"
  /\ Resolves(actions, currentAnimation)
  /\ actions[currentAnimation].paused
  /\ actions[currentAnimation].time > 0
  /\ progress = 0

\* C11: Stop on a clip that is not stopped leaves the clip's action deactivated
\* at time 0, and Play on the clip as Stop left it sets the action running
\* from time 0.
C11_StopResets ==
  [][/\ (/\ ModelRendered
         /\ Resolves(actions, currentAnimation)
         /\ isPlaying # "stopped"
         /\ SetStatus("stopped"))
        => /\ actions'[currentAnimation].time = 0
           /\ ~actions'[currentAnimation].scheduled
           /\ ~IsRunning(actions'[currentAnimation])
     /\ (/\ ModelRendered
         /\ Resolves(actions, currentAnimation)
         /\ isPlaying = "stopped"
         /\ ~actions[currentAnimation].scheduled
         /\ actions[currentAnimation].time = 0
         /\ SetStatus("playing"))
        => /\ actions'[currentAnimation].time = 0
           /\ IsRunning(actions'[currentAnimation])]_vars

\* C11 witness: the current clip stopped, its action deactivated at time 0
\* while another action of the asset has been advanced by the mixer
C11_Witness ==
  /\ ModelRendered
  /\ isPlaying = "stopped"
  /\ Resolves(actions, currentAnimation)
  /\ ~actions[currentAnimation].scheduled
  /\ actions[currentAnimation].time = 0
  /\ \E n \in DOMAIN actions : actions[n].time > 0

\* C12: a scrub sets the time of the current clip's action to progress times
\* the clip duration, keeps the action paused or unpaused and running or not
\* running as it was, and never changes the status.
C12_ScrubKeepsPlayState ==
  [][\A value \in 0..ProgSteps :
       HandleProgressChange(value)
       => /\ isPlaying' = isPlaying
          /\ (ModelRendered /\ Resolves(actions, currentAnimation))
             => /\ actions'[currentAnimation].time * ProgSteps = value * ClipDuration
                /\ actions'[currentAnimation].paused = actions[currentAnimation].paused
                /\ IsRunning(actions'[currentAnimation]) = IsRunning(actions[currentAnimation])]_vars

\* C12 witness: a paused clip scrubbed to a later time, still paused
C12_Witness ==
  /\ ModelRendered
  /\ isPlaying = "paused"
  /\ Resolves(actions, currentAnimation)
  /\ actions[currentAnimation].paused
  /\ progress > 0
  /\ actions[currentAnimation].time * ProgSteps = progress * ClipDuration

\* C13: the actions of the asset that was replaced or removed are all
\* deactivated, at time 0 and paused: none of them is running.
C13_TeardownStopsAll ==
  /\ Running(prevActions) = {}
  /\ \A n \in DOMAIN prevActions :
        /\ ~prevActions[n].scheduled
        /\ prevActions[n].time = 0
        /\ prevActions[n].paused

\* C13 witness: an asset with clips was replaced by another asset, now shown
C13_Witness ==
  /\ ModelRendered
  /\ DOMAIN prevActions # {}
  /\ DOMAIN prevActions # DOMAIN actions

\* C14: every frame callback of an asset load (handleModelLoad and its pose
\* commit) leaves orbitControlsEnabled true.
C14_LoadRestoresOrbit ==
  [][(rafQueue # <<>> /\ RunFrameCallback) => orbitControlsEnabled']_vars

\* C15: after handleModelLoad for an asset, the camera fields near, far, zoom
\* and rotation hold the asset's own value or, where the asset gives none, the
\* initial default: never a value left by an earlier asset or edit.
C15_PoseReplacedWholesale ==
  [][(rafQueue # <<>> /\ Head(rafQueue).kind = "onLoad" /\ RunFrameCallback)
       => LET settings == SceneSettingsOf(Head(rafQueue).asset)
          IN \A f \in {"near", "far", "zoom", "rotation"} :
               sceneSettings'.camera[f] =
                 IF f \in DOMAIN settings.camera
                 THEN settings.camera[f] ELSE DefaultCamera[f]]_vars

\* C16: a handleModelLoad call with the settings of the call before it, made
\* while the camera pose is still as that call left it, leaves the pose as it
\* is.
C16_LoadIdempotent ==
  [][(/\ rafQueue # <<>>
      /\ Head(rafQueue).kind = "onLoad"
      /\ lastLoad.asset # 0
      /\ SceneSettingsOf(lastLoad.asset) = SceneSettingsOf(Head(rafQueue).asset)
      /\ sceneSettings.camera = lastLoad.camera
      /\ RunFrameCallback)
       => sceneSettings'.camera = lastLoad.camera]_vars

\* C17: an edit of one axis of the camera position, rotation or target, made
\* when no camera sync is due, changes no other field of
\* sceneSettings.camera and no other axis of the edited vector.
C17_SetterWritesOwnField ==
  [][\A field \in {"position", "rotation", "target"}, axis \in 1..3,
        value \in EditValues, viaDrag \in BOOLEAN :
       ((~ControlsMounted \/ effCtl) /\ CameraInput(field, axis, value, viaDrag))
       => /\ \A f \in DOMAIN sceneSettings.camera \ {field} :
               sceneSettings'.camera[f] = sceneSettings.camera[f]
          /\ \A i \in (1..3) \ {axis} :
               sceneSettings'.camera[field][i] = sceneSettings.camera[field][i]]_vars

\* C18: once the authority effect has run on the mounted orbit controls, the
\* controls are enabled exactly when the authority mode is Orbit
\* (orbitControlsEnabled).
C18_ModeControlsConsistent ==
  (ControlsMounted /\ effCtl) => (ctrlEnabled = orbitControlsEnabled)

\* C19: the rotation angles the orbit change handler stores in
\* sceneSettings.camera.rotation are rounded to 2 decimal places.
C19_RotationRounded ==
  [][(ListenerAttached /\ \E p \in OrbitPoses : OrbitChange(p))
       => \A i \in 1..3 : sceneSettings'.camera.rotation[i] % 10 = 0]_vars

\* C20: resetCameraToViewTarget keeps the distance between the camera and the
\* orbit target, up to the 2-decimal rounding of the position.
C20_ResetKeepsDistance ==
  [][(DistanceTo(camPos, ctrlTarget) > 0 /\ ResetCameraToViewTarget)
       => /\ DistanceTo(camPos', ctrlTarget') - DistanceTo(camPos, ctrlTarget) <= 20
          /\ DistanceTo(camPos, ctrlTarget) - DistanceTo(camPos', ctrlTarget') <= 20]_vars

\* C21: when an asset without an authored camera has a bounding volume of zero
\* extent, the camera position the load writes is at a positive distance from
\* the target.
C21_DegenerateFallback ==
  [][(/\ rafQueue # <<>>
      /\ Head(rafQueue).kind = "onLoad"
      /\ ~AssetHasCamera(Head(rafQueue).asset)
      /\ AssetMaxDim(Head(rafQueue).asset) = 0
      /\ RunFrameCallback)
       => DistanceTo(sceneSettings'.camera.position, sceneSettings'.camera.target) > 0]_vars

\* largest extents of bounding volumes, in thousandths
FramingSizes == {0, 1, 2, 500, 1999, 2000, 2001, 10000}

\* C22: the framing distance of every asset loaded on the framing path is
\* strictly positive, and a larger largest extent always gives a larger
\* framing distance.
C22_DistanceMonotone ==
  [][(/\ rafQueue # <<>>
      /\ Head(rafQueue).kind = "onLoad"
      /\ ~AssetHasCamera(Head(rafQueue).asset)
      /\ RunFrameCallback)
       => /\ FramingDistance(AssetMaxDim(Head(rafQueue).asset)) > 0
          /\ DistanceTo(sceneSettings'.camera.position, sceneSettings'.camera.target) > 0
          /\ \A m1, m2 \in FramingSizes \cup {AssetMaxDim(a) : a \in loads} :
               m1 < m2 => FramingDistance(m1) < FramingDistance(m2)]_vars

\* the onLoad emissions waiting in the frame queue
CountOnLoad(queue) == Cardinality({i \in 1..Len(queue) : queue[i].kind = "onLoad"})

\* C23: the extraction effect queues one onLoad call when Model gets a new
\* asset and none in any other step, whatever re-renders happen; every queued
\* call is made once, and no two calls in a row are for the same asset.
C23_ExtractionOncePerLoad ==
  [][/\ (gltf' # gltf /\ gltf' # 0)
          => /\ CountOnLoad(rafQueue') = CountOnLoad(rafQueue) + 1
             /\ rafQueue'[Len(rafQueue')].kind = "onLoad"
             /\ rafQueue'[Len(rafQueue')].asset = gltf'
     /\ (~(gltf' # gltf /\ gltf' # 0) /\ ~RunFrameCallback)
          => CountOnLoad(rafQueue') = CountOnLoad(rafQueue)
     /\ (rafQueue # <<>> /\ RunFrameCallback)
          => /\ CountOnLoad(rafQueue') =
                  CountOnLoad(rafQueue) - (IF Head(rafQueue).kind = "onLoad" THEN 1 ELSE 0)
             /\ Head(rafQueue).kind = "onLoad" => Head(rafQueue).asset # lastLoad.asset]_vars

\* C23 witness: an asset was loaded, shown and re-rendered, then replaced, and
\* the replacing asset's onLoad call has been made and rendered
C23_Witness ==
  /\ Cardinality(loads) = 2
  /\ ModelRendered
  /\ lastLoad.asset = gltf
  /\ rafQueue = <<>>
  /\ ~renderPending
  /\ isVisible

\* C24: the camera a load writes comes from the asset's first authored camera
\* when it has one (position, target one forward step ahead, fov, near, far
\* and zoom copied) and the scene is then not moved; otherwise it comes from
\* the framing path. Either way one SceneSettings with a camera is emitted, and
\* its pose commit is scheduled.
C24_CameraSourceSelection ==
  [][/\ (gltf' # gltf /\ gltf' # 0 /\ AssetHasCamera(gltf'))
          => scenes' = scenes
     /\ (rafQueue # <<>> /\ Head(rafQueue).kind = "onLoad" /\ RunFrameCallback)
          => LET a == Head(rafQueue).asset
                 cameras == AssetCameras(a)
                 camera == sceneSettings'.camera
             IN /\ IF Len(cameras) > 0
                   THEN /\ camera.position = cameras[1].position
                        /\ camera.target = [i \in 1..3 |-> cameras[1].position[i] + cameras[1].forward[i]]
                        /\ \A f \in {"fov", "near", "far", "zoom"} : camera[f] = cameras[1][f]
                   ELSE /\ camera.position = FramingCamera(a).position
                        /\ camera.target = <<0, 0, 0>>
                        /\ camera.fov = FramingFov
                /\ Len(rafQueue') = Len(rafQueue)
                /\ rafQueue'[Len(rafQueue')].kind = "commit"
                /\ rafQueue'[Len(rafQueue')].asset = a]_vars

\* C24 witness: an asset with authored cameras and an asset without have both
\* been loaded, the latest being the one with cameras
C24_Witness ==
  /\ \E a \in loads : ~AssetHasCamera(a) /\ scenes[a] # LoadedScene(a)
  /\ ModelRendered
  /\ Len(AssetCameras(gltf)) > 1
  /\ scenes[gltf] = LoadedScene(gltf)
  /\ lastLoad.asset = gltf
  /\ sceneSettings.camera.position = AssetCameras(gltf)[1].position

\* C25: whenever the active clip's action is not advancing (status paused or
\* stopped), the progress value is the action's time as a fraction of the
\* clip duration; after Stop and after a clip was selected, progress is 0.
C25_ProgressTracksTime ==
  [][/\ (/\ ModelRendered'
         /\ Resolves(actions', currentAnimation')
         /\ isPlaying' \in {"paused", "stopped"})
          => progress' * ClipDuration = actions'[currentAnimation'].time * ProgSteps
     /\ (ModelRendered /\ Truthy(currentAnimation) /\ SetStatus("stopped"))
          => progress' = 0
     /\ (\E value \in SeqToSet(animations) : ModelRendered /\ SelectClip(value))
          => progress' = 0]_vars

\* C26: progress stays within the slider's range after every slider change
\* and wheel event; a wheel event moves it by one wheel step down (deltaY > 0)
\* or up, stopping at the ends of the range, and the time handleProgress sets
\* is within the clip.
C26_ProgressInRange ==
  [][/\ progress' \in 0..ProgSteps
     /\ \A deltaY \in WheelDeltas :
          HandleWheel(deltaY)
            => /\ progress' = IF deltaY > 0
                              THEN (IF progress = 0 THEN 0 ELSE progress - WheelDelta)
                              ELSE (IF progress = ProgSteps THEN ProgSteps ELSE progress + WheelDelta)
               /\ (ModelRendered /\ Resolves(actions, currentAnimation))
                    => /\ actions'[currentAnimation].time * ProgSteps = progress' * ClipDuration
                       /\ actions'[currentAnimation].time \in 0..ClipDuration]_vars

\* C26 witness: the progress is at the upper end of the range with the
\* action set to the end of the clip
C26_Witness ==
  /\ ModelRendered
  /\ Resolves(actions, currentAnimation)
  /\ progress = ProgSteps
  /\ actions[currentAnimation].time = ClipDuration

\* C27: once the frame callbacks of a load have run and their state is
\* rendered, currentAnimation is null, empty or one of the names in
\* animations.
C27_ActiveClipListed ==
  (rafQueue = <<>> /\ ~renderPending /\ (modelUrl # 0 => ModelRendered))
    => currentAnimation \in {Null, ""} \cup SeqToSet(animations)

\* C28: a loaded asset that is hidden becomes visible, unless it is replaced
\* or removed first, provided frame callbacks keep being run.
C28_VisibilityLiveness ==
  (ModelRendered /\ ~isVisible) ~> (isVisible \/ ~ModelRendered)

\* C28 witness: an asset that replaced another has been made visible and no
\* frame callback is left
C28_Witness ==
  /\ Cardinality(loads) = 2
  /\ \E a \in loads \ {gltf} : scenes[a] # LoadedScene(a)
  /\ ModelRendered
  /\ isVisible
  /\ rafQueue = <<>>

C30_DragCapture ==
  [][/\ (\E input \in DragInputs : MouseDown(input[1], input[2]))
          => drag'.isDragging /\ drag'.move # {} /\ drag'.up # {}
     /\ MouseUp => drag' = NoDrag
     /\ (\E value \in EditValues : MouseMove(value))
          => drag.isDragging /\ drag' = drag
     /\ gestures' # gestures => drag.isDragging
     /\ (drag'.isDragging <=> drag'.move # {})
     /\ (drag'.isDragging <=> drag'.up # {})]_vars

\* C30 witness: a drag that changed the x position, with a render of the
\* page during it, has ended
C30_Witness ==
  /\ drag = NoDrag
  /\ gestures > 1
  /\ ~renderPending
  /\ ModelRendered
  /\ sceneSettings.camera.position[1] = 1230

====
